---------------------------- MODULE Spec2Model ----------------------------
(***************************************************************************)
(* A model of the swes blog server: the entry cache (BlogStorage), the     *)
(* content-directory watcher with the ingest tasks it spawns, the          *)
(* broadcast channel of reload events and the HTTP handlers that read the  *)
(* cache.                                                                  *)
(*                                                                         *)
(* Two specifications are given.  SpecStore drives the public methods of   *)
(* one BlogStorage in every order on every argument; Spec is the running   *)
(* server: files change in the content directory, the watcher callback     *)
(* spawns ingest tasks and publishes Reload, tasks run later in any order, *)
(* HTTP handlers read the cache and SSE clients receive frames.            *)
(***************************************************************************)
EXTENDS Integers, Sequences, FiniteSets, Bags, TLC

\* ------------------------------------------------------------- bounds
\* Creation timestamps are 1..MaxDate.
MaxDate == 2
\* Distinct well-formed file contents are 1..MaxContent.
MaxContent == 2
\* Length bound of the recent list.  BlogStorage::new sets the field to 10;
\* the model is parametric in it and uses a scaled-down value.
max_most_recent_entries == 2
\* Ingest tasks spawned and not yet run.
MaxTasks == 2
\* File-system events the watcher delivers in one run.
MaxEvents == 3
\* Connected /events clients.
MaxSubscribers == 1
\* Capacity of the broadcast channel.  main creates it with 500; the model
\* is parametric in it and uses a scaled-down value.
ChannelCapacity == 2
MaxTemplateVersion == 2
MaxThemeEvents == 3
BusSubscribers == 3

\* ------------------------------------------------------------- names
\* File names are sequences of characters, so that ends_with and
\* starts_with are computed on the characters as the code does.
MD == <<".", "m", "d">>

Names ==
    { <<"a">> \o MD, <<"_", "b">> \o MD, <<"c", ".", "t", "x", "t">> }

Dates == 1..MaxDate

\* Content 0 stands for a file whose YAML front matter is missing or
\* invalid; 1..MaxContent are distinct well-formed documents.
BadFrontMatter == 0
Contents == 1..MaxContent

ends_with(s, suffix) ==
    /\ Len(s) >= Len(suffix)
    /\ SubSeq(s, Len(s) - Len(suffix) + 1, Len(s)) = suffix

starts_with(s, c) == Len(s) >= 1 /\ s[1] = c

is_valid_filename_entry(filename) ==
    ends_with(filename, MD) /\ ~starts_with(filename, "_")

\* ------------------------------------------------------------- state
VARIABLES
    fs,                   \* content directory: file name -> [created, content]
    entries,              \* BlogStorage.entries: name -> entry
    most_recent_entries,  \* BlogStorage.most_recent_entries: sequence of entries
    tasks,                \* spawned ingest tasks not yet run
    receivers,            \* broadcast receivers of the /events clients
    reply,                \* what the last read answered
    delivered,            \* number of events the watcher callback has taken
    upserted,             \* history: name -> entry last passed to try_store_entry
                          \* since the name was last removed
    truncated,            \* history: the creation dates of the entries that
                          \* truncate has cut from most_recent_entries
    last_parsed,          \* history: name -> entry of the parse of the name's file
                          \* by an ingest task that returned last
    theme_dir,            \* theme directory: template -> version of its file
    handlebars,           \* HandlebarsSupport.handlebars: the registered templates
    theme_task,           \* the theme watcher callback and its reload_theme call
    page                  \* what the last render produced

\* The variables of the theme.
theme == <<theme_dir, handlebars, theme_task, page>>

vars ==
    <<fs, entries, most_recent_entries, tasks, receivers, reply, delivered,
      upserted, truncated, last_parsed, theme_dir, handlebars, theme_task,
      page>>

\* A BlogEntry.  html stands for the rendered document (title and body),
\* one value per distinct file content.
BlogEntry(filename, creation_date, html) ==
    [filename |-> filename, creation_date |-> creation_date, html |-> html]

EntriesNamed(name) ==
    { BlogEntry(name, d, c) : d \in Dates, c \in Contents }

\* An insert that leaves an existing binding alone (entry().or_insert).
MapInsertKeepingOld(m, k, v) ==
    [x \in DOMAIN m \cup {k} |-> IF x \in DOMAIN m THEN m[x] ELSE v]

\* A finite map with the key bound to the value (HashMap::insert).
MapInsert(m, k, v) ==
    [x \in DOMAIN m \cup {k} |-> IF x = k THEN v ELSE m[x]]

\* A finite map without a key (HashMap::remove_entry).
MapRemove(m, k) == [x \in DOMAIN m \ {k} |-> m[x]]

EmptyMap == [x \in {} |-> 0]

\* ------------------------------------------------------------- parsing
ParseErr == [ok |-> FALSE, entry |-> <<>>]
ParseOk(e) == [ok |-> TRUE, entry |-> <<e>>]

\* A parser that accepts a file without front matter.
parse_lenient(dir, path) ==
    IF path \notin DOMAIN dir THEN ParseErr
    ELSE ParseOk(BlogEntry(path, dir[path].created, dir[path].content))

\* parse_file_to_html on the directory dir: an error when the file cannot
\* be read or its front matter does not parse, else the entry named after
\* the file, dated by the file's creation time.
parse_file_to_html(dir, path) ==
    IF path \notin DOMAIN dir THEN ParseErr
    ELSE IF dir[path].content = BadFrontMatter THEN ParseErr
    ELSE ParseOk(BlogEntry(path, dir[path].created, dir[path].content))

\* ------------------------------------------------------------- the store
Store == [entries |-> entries, most_recent_entries |-> most_recent_entries]

\* A search that always answers the front of the list.
search_front(v, date) == {0}

\* slice::binary_search_by on a list sorted by creation_date, as 0-based
\* insertion positions: the index of any element comparing Equal when
\* there is one (which one is left open by the library), else the number
\* of elements comparing Less.
binary_search_by(v, date) ==
    LET equal == { i \in 1..Len(v) : v[i].creation_date = date }
        less  == { i \in 1..Len(v) : v[i].creation_date < date }
    IN  IF equal # {} THEN { i - 1 : i \in equal }
        ELSE { Cardinality(less) }

\* Vec::insert at a 0-based position.
VecInsert(v, pos, e) ==
    SubSeq(v, 1, pos) \o <<e>> \o SubSeq(v, pos + 1, Len(v))

\* A list that is never cut.
NoTruncate(v, n) == v

\* Vec::truncate.
truncate(v, n) == IF Len(v) > n THEN SubSeq(v, 1, n) ELSE v

\* The stores try_store_entry can leave: the entry is bound to its name,
\* then inserted into the recent list where the binary search says, and the
\* list is cut to max_most_recent_entries.
try_store_entry(s, entry_name, entry) ==
    { [entries |-> MapInsert(s.entries, entry_name, entry),
       most_recent_entries |->
           truncate(VecInsert(s.most_recent_entries, pos, entry),
                    max_most_recent_entries)] :
      pos \in binary_search_by(s.most_recent_entries, entry.creation_date) }

\* BlogStorage::remove_entry: only the map is touched.
remove_entry(s, entry_name) ==
    [entries |-> MapRemove(s.entries, entry_name),
     most_recent_entries |-> s.most_recent_entries]

contains_entry(s, entry_name) ==
    \E k \in DOMAIN s.entries : k = entry_name

try_find_cached_entry(s, entry_name) ==
    IF entry_name \in DOMAIN s.entries THEN <<s.entries[entry_name]>> ELSE <<>>

\* The entries the visitor of iterate_most_recent_entries is called with,
\* in call order.
iterate_most_recent_entries(s) ==
    [i \in 1..Len(s.most_recent_entries) |-> s.most_recent_entries[i]]

\* What the last read answered and for which name: "hit" (blog, from the
\* cache), "loaded" (blog, parsed on a miss), "not_found" (blog), "home",
\* and for contains_entry "contains" or "absent".
Reply(status, name) == [status |-> status, name |-> name]

NoReply == Reply("none", <<>>)

\* ------------------------------------------------------------- channel
\* tokio's broadcast channel as each receiver sees it: the number of
\* values it has not yet received, at most ChannelCapacity, and whether
\* older values were overwritten before it received them.
NoReceiver == [active |-> FALSE, pending |-> 0, lagged |-> FALSE]

\* A send that drops the new value for a full receiver and tells nobody.
send_dropping(rx) ==
    [i \in DOMAIN rx |->
        IF rx[i].active /\ rx[i].pending < ChannelCapacity
        THEN [rx[i] EXCEPT !.pending = @ + 1]
        ELSE rx[i]]

\* Sender::send: with no receiver the value is dropped; else every
\* receiver gets it, and a receiver whose backlog is full loses its oldest.
send(rx) ==
    [i \in DOMAIN rx |->
        IF ~rx[i].active THEN rx[i]
        ELSE IF rx[i].pending < ChannelCapacity
        THEN [rx[i] EXCEPT !.pending = @ + 1]
        ELSE [rx[i] EXCEPT !.lagged = TRUE]]

\* The next item of BroadcastStream on a receiver with something to yield:
\* Err(Lagged) once after a loss, else the oldest value still kept.
recv(r) ==
    IF r.lagged
    THEN [item |-> "Lagged", rx |-> [r EXCEPT !.lagged = FALSE]]
    ELSE [item |-> "Reload", rx |-> [r EXCEPT !.pending = @ - 1]]

\* sse_data: the data of the frame for an event.
sse_data(evt) == CASE evt = "Reload" -> "reload"

\* The closure of sse_update: a received event is framed as it is, an
\* error of the stream is framed as Reload.
sse_update(item) ==
    IF item = "Lagged" THEN sse_data("Reload") ELSE sse_data(item)

\* ------------------------------------------------------------- theme
\* The templates load_handlebars_theme registers, in its order.
Templates == {"blog_entry", "entry_not_found", "home"}
TemplateOrder == <<"blog_entry", "entry_not_found", "home">>

\* Version 0 stands for a template file that cannot be read or does not
\* compile; 1..MaxTemplateVersion are distinct well-formed templates.
TemplateError == 0
TemplateVersions == 1..MaxTemplateVersion

\* A template file that compiles and whose render returns an error, as one
\* that includes a partial nobody registered.
Unrenderable == MaxTemplateVersion + 1

\* A registered template: its text and the call of load_handlebars_theme
\* that registered it.
Registered(version, load) == [version |-> version, load |-> load]

\* The callback of the theme watcher is not running.
Idle(events, loads) ==
    [pc |-> "idle", events |-> events, loads |-> loads,
     loading |-> EmptyMap, old |-> EmptyMap]

\* What a handler's call of format_blog_entry, format_not_found or
\* format_home came to: the string rendered from a version of the template,
\* or the panic of the unwrap on the error of Handlebars::render.
Html(t, version) == [template |-> t, version |-> version, status |-> "html"]
Panicked(t) == [template |-> t, version |-> 0, status |-> "panic"]

NoPage == [template |-> "none", version |-> 0, status |-> "none"]

\* HandlebarsSupport::new on the theme the server starts with.
InitTheme ==
    /\ theme_dir = [t \in Templates |-> 1]
    /\ handlebars = [t \in Templates |-> Registered(1, 0)]
    /\ theme_task = Idle(0, 0)
    /\ page = NoPage

\* The creation dates of a list, each as often as it occurs.
DatesBag(v) ==
    [d \in { v[i].creation_date : i \in 1..Len(v) } |->
        Cardinality({ i \in 1..Len(v) : v[i].creation_date = d })]

\* The creation dates that are in the list before with entry added and no
\* longer in the list after: those of the entries truncate has cut.
CutDates(before, entry, after) ==
    BagToSet((DatesBag(before) (+) SetToBag({entry.creation_date}))
             (-) DatesBag(after))

\* The server started on an empty content directory: BlogStorage::new
\* leaves both indices empty, add_most_recent_entries finds no file, no
\* task is spawned and nobody is subscribed to the channel.
Init ==
    /\ fs = EmptyMap
    /\ entries = EmptyMap
    /\ most_recent_entries = <<>>
    /\ tasks = EmptyBag
    /\ receivers = [i \in 1..MaxSubscribers |-> NoReceiver]
    /\ reply = NoReply
    /\ delivered = 0
    /\ upserted = EmptyMap
    /\ last_parsed = EmptyMap
    /\ truncated = {}
    /\ InitTheme

\* ------------------------------------------------------------- store steps
\* The store changes as try_store_entry(entry_name, entry) changes it.
StoreEntry(entry_name, entry) ==
    /\ \E s \in try_store_entry(Store, entry_name, entry) :
          /\ entries' = s.entries
          /\ most_recent_entries' = s.most_recent_entries
          /\ truncated' =
                truncated \cup CutDates(most_recent_entries, entry,
                                        s.most_recent_entries)
    /\ upserted' = [x \in DOMAIN upserted \cup {entry_name} |->
                        IF x = entry_name THEN entry ELSE upserted[x]]
    /\ UNCHANGED last_parsed

RemoveEntry(entry_name) ==
    /\ entries' = remove_entry(Store, entry_name).entries
    /\ most_recent_entries' = remove_entry(Store, entry_name).most_recent_entries
    /\ upserted' = [x \in DOMAIN upserted \ {entry_name} |-> upserted[x]]
    /\ UNCHANGED <<truncated, last_parsed>>

StoreUnchanged ==
    UNCHANGED <<entries, most_recent_entries, upserted, truncated,
                last_parsed>>

\* BlogStorage::get_entry given what parsing the file would return: a hit
\* answers from the map; a miss parses the file and, when that succeeds,
\* stores the entry under the requested name and answers with it.
GetEntry(entry_name, parsed) ==
    IF try_find_cached_entry(Store, entry_name) # <<>>
    THEN /\ reply' = Reply("hit", entry_name)
         /\ StoreUnchanged
    ELSE IF parsed.ok
    THEN /\ StoreEntry(entry_name, parsed.entry[1])
         /\ reply' = Reply("loaded", entry_name)
    ELSE /\ reply' = Reply("not_found", entry_name)
         /\ StoreUnchanged

\* ------------------------------------------------------------- SpecStore
\* What parse_file_to_html can return for a name, over the directories
\* holding at most that file.
ParseOutcomes(name) ==
    { parse_file_to_html(dir, name) :
        dir \in {EmptyMap} \cup
                { [x \in {name} |-> [created |-> d, content |-> c]] :
                    d \in Dates, c \in Contents \cup {BadFrontMatter} } }

ApiTryStoreEntry ==
    \E name \in Names : \E entry \in EntriesNamed(name) :
        /\ StoreEntry(name, entry)
        /\ UNCHANGED <<fs, tasks, receivers, reply, delivered, theme>>

ApiRemoveEntry ==
    \E name \in Names :
        /\ RemoveEntry(name)
        /\ UNCHANGED <<fs, tasks, receivers, reply, delivered, theme>>

ApiGetEntry ==
    \E name \in Names : \E parsed \in ParseOutcomes(name) :
        /\ GetEntry(name, parsed)
        /\ UNCHANGED <<fs, tasks, receivers, delivered, theme>>

ApiContainsEntry ==
    \E name \in Names :
        /\ reply' = Reply(IF contains_entry(Store, name)
                          THEN "contains" ELSE "absent", name)
        /\ StoreUnchanged
        /\ UNCHANGED <<fs, tasks, receivers, delivered, theme>>

ApiIterateMostRecentEntries ==
    /\ reply' = Reply("home", <<>>)
    /\ StoreUnchanged
    /\ UNCHANGED <<fs, tasks, receivers, delivered, theme>>

NextStore ==
    \/ ApiTryStoreEntry
    \/ ApiRemoveEntry
    \/ ApiGetEntry
    \/ ApiContainsEntry
    \/ ApiIterateMostRecentEntries

SpecStore == Init /\ [][NextStore]_vars

\* ------------------------------------------------------------- Spec
\* An ingest task spawned by the watcher callback: create_entry,
\* reload_entry or remove_entry on a path of the content directory.
Task(kind, path) ==
    [kind |-> kind, path |-> path, pc |-> "spawned", entry |-> <<>>]

\* handle.spawn from the watcher callback of one more event.
Spawn(t) ==
    /\ delivered < MaxEvents
    /\ delivered' = delivered + 1
    /\ BagCardinality(tasks) < MaxTasks
    /\ tasks' = tasks (+) SetToBag({t})

Finish(t) ==
    /\ tasks' = tasks (-) SetToBag({t})
    /\ UNCHANGED delivered

\* A regular file appears in the content directory and the watcher callback
\* takes its Create event: it spawns create_entry and publishes Reload.
WatcherCreate(name) ==
    /\ name \notin DOMAIN fs
    /\ \E d \in Dates : \E c \in Contents \cup {BadFrontMatter} :
        /\ fs' = MapInsert(fs, name, [created |-> d, content |-> c])
        /\ Spawn(Task("create", name))
        /\ receivers' = send(receivers)
        /\ StoreUnchanged
        /\ UNCHANGED <<reply, theme>>

\* The data of a file is rewritten and the watcher callback takes its
\* Modify event: it spawns reload_entry and publishes Reload.
WatcherModify(name) ==
    /\ name \in DOMAIN fs
    /\ \E c \in Contents \cup {BadFrontMatter} :
        /\ fs' = [fs EXCEPT ![name].content = c]
        /\ Spawn(Task("reload", name))
        /\ receivers' = send(receivers)
        /\ StoreUnchanged
        /\ UNCHANGED <<reply, theme>>

\* A Remove arm that publishes Reload as the other arms do.
WatcherRemoveSending(name) ==
        /\ name \in DOMAIN fs
        /\ fs' = MapRemove(fs, name)
        /\ Spawn(Task("remove", name))
        /\ receivers' = send(receivers)
        /\ StoreUnchanged
        /\ UNCHANGED <<reply, theme>>

\* A file is deleted and the watcher callback takes its Remove event: it
\* spawns remove_entry and publishes nothing.
WatcherRemove(name) ==
        /\ name \in DOMAIN fs
        /\ fs' = MapRemove(fs, name)
        /\ Spawn(Task("remove", name))
        /\ StoreUnchanged
        /\ UNCHANGED <<receivers, reply, theme>>

\* A create task that stores only a name the cache already holds.
RunCreateEntryIfCached(t) ==
    /\ t.kind = "create"
    /\ Finish(t)
    /\ LET blog_entry == parse_file_to_html(fs, t.path)
       IN  IF ~is_valid_filename_entry(t.path) THEN StoreUnchanged
           ELSE IF ~contains_entry(Store, t.path) THEN StoreUnchanged
           ELSE IF ~blog_entry.ok THEN StoreUnchanged
           ELSE StoreEntry(t.path, blog_entry.entry[1])
    /\ UNCHANGED <<fs, receivers, reply, theme>>

\* The task spawned by create_entry.
RunCreateEntry(t) ==
    /\ t.kind = "create"
    /\ Finish(t)
    /\ LET blog_entry == parse_file_to_html(fs, t.path)
       IN  IF ~is_valid_filename_entry(t.path) THEN StoreUnchanged
           ELSE IF ~blog_entry.ok THEN StoreUnchanged
           ELSE StoreEntry(t.path, blog_entry.entry[1])
    /\ UNCHANGED <<fs, receivers, reply, theme>>

\* The task spawned by reload_entry.
RunReloadEntry(t) ==
    /\ t.kind = "reload"
    /\ Finish(t)
    /\ IF ~is_valid_filename_entry(t.path) THEN StoreUnchanged
       ELSE IF ~contains_entry(Store, t.path) THEN StoreUnchanged
       ELSE LET blog_entry == parse_file_to_html(fs, t.path)
            IN  IF ~blog_entry.ok THEN StoreUnchanged
                ELSE StoreEntry(t.path, blog_entry.entry[1])
    /\ UNCHANGED <<fs, receivers, reply, theme>>

\* The task spawned by remove_entry (main.rs).
RunRemoveEntry(t) ==
    /\ t.kind = "remove"
    /\ Finish(t)
    /\ IF ~ends_with(t.path, MD) THEN StoreUnchanged
       ELSE RemoveEntry(t.path)
    /\ UNCHANGED <<fs, receivers, reply, theme>>

\* GET /blog/<name>.
Blog(name) ==
        /\ GetEntry(name, parse_file_to_html(fs, name))
        /\ UNCHANGED <<fs, tasks, receivers, delivered, theme>>

\* GET /blog.
Home ==
    /\ reply' = Reply("home", <<>>)
    /\ StoreUnchanged
    /\ UNCHANGED <<fs, tasks, receivers, delivered, theme>>

\* A subscription that starts with the values sent before it.
EventsReplaying ==
    \E i \in DOMAIN receivers :
        /\ ~receivers[i].active
        /\ receivers' = [receivers EXCEPT ![i] =
               [active |-> TRUE, pending |-> IF delivered > 0 THEN 1 ELSE 0,
                lagged |-> FALSE]]
        /\ UNCHANGED <<entries, most_recent_entries, upserted, truncated,
                last_parsed>>
        /\ UNCHANGED <<fs, tasks, reply, delivered, theme>>

\* GET /events: a new receiver of the channel.
Events ==
    \E i \in DOMAIN receivers :
        /\ ~receivers[i].active
        /\ receivers' = [receivers EXCEPT ![i] = [NoReceiver EXCEPT !.active = TRUE]]
        /\ StoreUnchanged
        /\ UNCHANGED <<fs, tasks, reply, delivered, theme>>

\* The stream of sse_update yields its next frame to client i: a lagged
\* receiver learns of the loss, else the oldest pending value is taken.
\* Either way the frame sent is "reload".
SseItem(i) ==
        /\ receivers[i].active
        /\ receivers[i].lagged \/ receivers[i].pending > 0
        /\ sse_update(recv(receivers[i]).item) = "reload"
        /\ receivers' = [receivers EXCEPT ![i] = recv(@).rx]
        /\ StoreUnchanged
        /\ UNCHANGED <<fs, tasks, reply, delivered, theme>>

SseNext == \E i \in DOMAIN receivers : SseItem(i)

\* The client disconnects and its receiver is dropped.
Disconnect ==
    \E i \in DOMAIN receivers :
        /\ receivers[i].active
        /\ receivers' = [receivers EXCEPT ![i] = NoReceiver]
        /\ StoreUnchanged
        /\ UNCHANGED <<fs, tasks, reply, delivered, theme>>

Next ==
    \/ \E name \in Names : WatcherCreate(name)
    \/ \E name \in Names : WatcherModify(name)
    \/ \E name \in Names : WatcherRemove(name)
    \/ \E t \in BagToSet(tasks) : RunCreateEntry(t)
    \/ \E t \in BagToSet(tasks) : RunReloadEntry(t)
    \/ \E t \in BagToSet(tasks) : RunRemoveEntry(t)
    \/ \E name \in Names : Blog(name)
    \/ Home
    \/ Events
    \/ SseNext
    \/ Disconnect

Spec == Init /\ [][Next]_vars

\* The watcher, its tasks and the clients of the channel, without the
\* page handlers; the runtime runs every spawned create_entry task.
NextIngest ==
    \/ \E name \in Names : WatcherCreate(name)
    \/ \E name \in Names : WatcherModify(name)
    \/ \E name \in Names : WatcherRemove(name)
    \/ \E t \in BagToSet(tasks) : RunCreateEntry(t)
    \/ \E t \in BagToSet(tasks) : RunReloadEntry(t)
    \/ \E t \in BagToSet(tasks) : RunRemoveEntry(t)
    \/ Events
    \/ SseNext
    \/ Disconnect

SpecLive ==
    /\ Init
    /\ [][NextIngest]_vars
    /\ \A name \in Names : WF_vars(RunCreateEntry(Task("create", name)))

\* ---------------------------------------------------- the channel alone
\* The channel with BusSubscribers clients and its senders reduced to
\* their send: what the callbacks of both watchers do to the channel.
InitBus ==
    /\ fs = EmptyMap
    /\ entries = EmptyMap
    /\ most_recent_entries = <<>>
    /\ upserted = EmptyMap
    /\ tasks = EmptyBag
    /\ receivers = [i \in 1..BusSubscribers |-> NoReceiver]
    /\ reply = NoReply
    /\ delivered = 0
    /\ last_parsed = EmptyMap
    /\ truncated = {}
    /\ InitTheme

\* `let _ = sender.send(UpdateEvent::Reload)`.
Publish ==
    /\ receivers' = send(receivers)
    /\ StoreUnchanged
    /\ UNCHANGED <<fs, tasks, reply, delivered, theme>>

NextBus ==
    \/ Publish
    \/ Events
    \/ SseNext
    \/ Disconnect

SpecBus == InitBus /\ [][NextBus]_vars

\* warp polls the stream of every connected client.
SpecBusFair ==
    SpecBus /\ \A i \in 1..BusSubscribers : WF_vars(SseItem(i))

\* ------------------------------------------------------------- claims
\* C1: every entry of the recent list is bound in the by-name map under its
\* name, to the same entry value.
C1_RecentInByName ==
    \A i \in 1..Len(most_recent_entries) :
        LET e == most_recent_entries[i]
        IN  /\ e.filename \in DOMAIN entries
            /\ entries[e.filename] = e

\* C2: when the task of a Removed event for a stored .md file has run, no
\* entry of that name is visited by iterate_most_recent_entries and a
\* lookup of the name misses.
C2_RemovedEventRemovesEverywhere ==
    [][\A t \in BagToSet(tasks) :
          (/\ RunRemoveEntry(t)
           /\ ends_with(t.path, MD)
           /\ contains_entry(Store, t.path))
          => /\ (try_find_cached_entry(Store, t.path))' = <<>>
             /\ \A i \in 1..Len((iterate_most_recent_entries(Store))') :
                   (iterate_most_recent_entries(Store))'[i].filename # t.path]_vars

\* C3: the recent list never holds two entries of the same name.
C3_RecentNoDuplicateName ==
    \A i, j \in 1..Len(most_recent_entries) :
        i # j => most_recent_entries[i].filename # most_recent_entries[j].filename

\* Character codes, for the ascending order of names.
CharCode(c) ==
    CASE c = "." -> 46
      [] c = "_" -> 95
      [] c = "a" -> 97
      [] c = "b" -> 98
      [] c = "c" -> 99
      [] c = "d" -> 100
      [] c = "m" -> 109
      [] c = "t" -> 116
      [] c = "x" -> 120

RECURSIVE NameLess(_, _)
NameLess(a, b) ==
    IF a = <<>> THEN b # <<>>
    ELSE IF b = <<>> THEN FALSE
    ELSE IF a[1] = b[1] THEN NameLess(Tail(a), Tail(b))
    ELSE CharCode(a[1]) < CharCode(b[1])

\* The newest-first order: later date first, equal dates by name ascending.
NewestFirst(e1, e2) ==
    \/ e1.creation_date > e2.creation_date
    \/ /\ e1.creation_date = e2.creation_date
       /\ NameLess(e1.filename, e2.filename)

ByNameValues == { entries[n] : n \in DOMAIN entries }

\* The first max_most_recent_entries values of the by-name map, newest first.
TopRecent ==
    LET n == IF Cardinality(ByNameValues) < max_most_recent_entries
             THEN Cardinality(ByNameValues) ELSE max_most_recent_entries
    IN  [i \in 1..n |->
            CHOOSE e \in ByNameValues :
                Cardinality({ x \in ByNameValues : NewestFirst(x, e) }) = i - 1]

\* C4: the recent list is the top max_most_recent_entries of the by-name
\* map under the newest-first order.
C4_RecentIsTopOfByName == most_recent_entries = TopRecent

\* C5: the entries visited by iterate_most_recent_entries are strictly
\* sorted newest first, equal dates by name ascending.
C5_RecentSortedNewestFirst ==
    LET visited == iterate_most_recent_entries(Store)
    IN  \A i, j \in 1..Len(visited) :
            i < j => NewestFirst(visited[i], visited[j])

\* C6: the recent list is never longer than max_most_recent_entries.
C6_RecentBounded == Len(most_recent_entries) <= max_most_recent_entries

\* More names are stored than the recent list may hold, and the list is
\* full: an insertion has been cut off.
C6_Witness ==
    /\ Len(most_recent_entries) = max_most_recent_entries
    /\ Cardinality(DOMAIN entries) > max_most_recent_entries

\* C7: from the current store, storing an entry twice leaves what storing
\* it once leaves, in both the by-name map and the recent list.
C7_UpsertIdempotent ==
    \A name \in Names : \A e \in EntriesNamed(name) :
        \A s1 \in try_store_entry(Store, name, e) :
            \A s2 \in try_store_entry(s1, name, e) : s2 = s1

\* C8: from the current store, storing an entry under a name the store does
\* not hold and then removing the name gives back the current store.
C8_UpsertThenRemoveRestores ==
    \A name \in Names \ DOMAIN entries : \A e \in EntriesNamed(name) :
        \A s1 \in try_store_entry(Store, name, e) :
            remove_entry(s1, name) = Store

\* C9: for a name stored and not removed since, the lookup of get_entry
\* hits and returns the entry of the latest store of that name.
C9_GetReturnsLatestUpsert ==
    \A name \in DOMAIN upserted :
        try_find_cached_entry(Store, name) = <<upserted[name]>>

\* A get has hit on a name whose latest stored entry replaced an older,
\* different entry of that name.
C9_Witness ==
    /\ reply.status = "hit"
    /\ reply.name \in DOMAIN upserted
    /\ try_find_cached_entry(Store, reply.name) = <<upserted[reply.name]>>
    /\ \E i \in 1..Len(most_recent_entries) :
          /\ most_recent_entries[i].filename = reply.name
          /\ most_recent_entries[i] # upserted[reply.name]

\* C10: an event the dispatch table ignores changes neither index and
\* publishes nothing: Created or Modified on an ineligible name, Modified on
\* an eligible name the store does not contain; and the tasks spawned for
\* such events leave both indices as they are.
C10_IgnoredEventsHaveNoEffect ==
    [][/\ \A name \in Names :
             (/\ WatcherCreate(name) \/ WatcherModify(name)
              /\ ~is_valid_filename_entry(name))
             => UNCHANGED <<entries, most_recent_entries, receivers>>
       /\ \A name \in Names :
             (/\ WatcherModify(name)
              /\ is_valid_filename_entry(name)
              /\ ~contains_entry(Store, name))
             => UNCHANGED <<entries, most_recent_entries, receivers>>
       /\ \A t \in BagToSet(tasks) :
             (/\ RunCreateEntry(t) \/ RunReloadEntry(t)
              /\ ~is_valid_filename_entry(t.path))
             => UNCHANGED <<entries, most_recent_entries, receivers>>
       /\ \A t \in BagToSet(tasks) :
             (/\ RunReloadEntry(t)
              /\ is_valid_filename_entry(t.path)
              /\ ~contains_entry(Store, t.path))
             => UNCHANGED <<entries, most_recent_entries, receivers>>]_vars

\* ------------------------------------------------- tasks step by step
\* The ingest tasks as the runtime can interleave them: a task is suspended
\* at the await of parse_file_to_html, and try_store_entry takes the lock
\* of the map and the lock of the recent list one after the other.
Staged(t, pc, entry) == [t EXCEPT !.pc = pc, !.entry = <<entry>>]

\* create_entry or reload_entry up to the point where parse_file_to_html
\* has returned: the task ends there when the name is refused, when
\* reload_entry finds the name absent, or when the parse failed.
ParseStep(t) ==
    /\ t.kind \in {"create", "reload"}
    /\ t.pc = "spawned"
    /\ LET blog_entry == parse_file_to_html(fs, t.path)
       IN  IF \/ ~is_valid_filename_entry(t.path)
              \/ t.kind = "reload" /\ ~contains_entry(Store, t.path)
           THEN /\ Finish(t)
                /\ UNCHANGED last_parsed
           ELSE IF ~blog_entry.ok
           THEN /\ Finish(t)
                /\ last_parsed' =
                      [x \in DOMAIN last_parsed \ {t.path} |-> last_parsed[x]]
           ELSE /\ tasks' = (tasks (-) SetToBag({t}))
                              (+) SetToBag({Staged(t, "store_entries",
                                                   blog_entry.entry[1])})
                /\ UNCHANGED delivered
                /\ last_parsed' =
                      [x \in DOMAIN last_parsed \cup {t.path} |->
                          IF x = t.path THEN blog_entry.entry[1]
                          ELSE last_parsed[x]]
    /\ UNCHANGED <<entries, most_recent_entries, upserted, truncated>>
    /\ UNCHANGED <<fs, receivers, reply, theme>>

\* try_store_entry under the write lock of entries.
InsertEntries(t) ==
    /\ t.pc = "store_entries"
    /\ entries' = MapInsert(entries, t.path, t.entry[1])
    /\ upserted' = [x \in DOMAIN upserted \cup {t.path} |->
                        IF x = t.path THEN t.entry[1] ELSE upserted[x]]
    /\ tasks' = (tasks (-) SetToBag({t}))
                  (+) SetToBag({Staged(t, "store_recent", t.entry[1])})
    /\ UNCHANGED <<most_recent_entries, truncated, last_parsed, delivered>>
    /\ UNCHANGED <<fs, receivers, reply, theme>>

\* try_store_entry under the write lock of most_recent_entries.
InsertMostRecent(t) ==
    /\ t.pc = "store_recent"
    /\ \E pos \in binary_search_by(most_recent_entries,
                                  t.entry[1].creation_date) :
          most_recent_entries' =
              truncate(VecInsert(most_recent_entries, pos, t.entry[1]),
                       max_most_recent_entries)
    /\ truncated' = truncated \cup CutDates(most_recent_entries, t.entry[1],
                                            most_recent_entries')
    /\ Finish(t)
    /\ UNCHANGED <<entries, upserted, last_parsed>>
    /\ UNCHANGED <<fs, receivers, reply, theme>>

NextConc ==
    \/ \E name \in Names : WatcherCreate(name)
    \/ \E name \in Names : WatcherModify(name)
    \/ \E name \in Names : WatcherRemove(name)
    \/ \E t \in BagToSet(tasks) : ParseStep(t)
    \/ \E t \in BagToSet(tasks) : InsertEntries(t)
    \/ \E t \in BagToSet(tasks) : InsertMostRecent(t)
    \/ \E t \in BagToSet(tasks) : RunRemoveEntry(t)
    \/ Home

SpecConc == Init /\ [][NextConc]_vars

\* ---------------------------------------------------- the theme alone
\* A template file of the theme directory is edited, or damaged, and the
\* theme watcher has one more Modify event to deliver.
ThemeModify(t, v) ==
    /\ theme_dir[t] # v
    /\ theme_task.loads + theme_task.events < MaxThemeEvents
    /\ theme_dir' = [theme_dir EXCEPT ![t] = v]
    /\ theme_task' = [theme_task EXCEPT !.events = @ + 1]
    /\ UNCHANGED <<handlebars, page>>
    /\ StoreUnchanged
    /\ UNCHANGED <<fs, tasks, receivers, reply, delivered>>

\* The callback takes a Modify event, gets the write guard of the
\* HandlebarsSupport and calls reload_theme, whose load_handlebars_theme
\* starts from an empty registry.
ReloadStart ==
    /\ theme_task.pc = "idle"
    /\ theme_task.events > 0
    /\ theme_task' = [pc |-> "loading", events |-> theme_task.events - 1,
                      loads |-> theme_task.loads + 1,
                      loading |-> EmptyMap, old |-> handlebars]
    /\ UNCHANGED <<theme_dir, handlebars, page>>
    /\ StoreUnchanged
    /\ UNCHANGED <<fs, tasks, receivers, reply, delivered>>

\* The template load_handlebars_theme registers next.
NextTemplate == TemplateOrder[Cardinality(DOMAIN theme_task.loading) + 1]

\* A load that registers each template in the registry being served.
RegisterTemplateInPlace ==
    /\ theme_task.pc = "loading"
    /\ DOMAIN theme_task.loading # Templates
    /\ theme_dir[NextTemplate] # TemplateError
    /\ theme_task' = [theme_task EXCEPT !.loading =
          MapInsert(@, NextTemplate,
                    Registered(theme_dir[NextTemplate], theme_task.loads))]
    /\ handlebars' = [handlebars EXCEPT ![NextTemplate] =
          Registered(theme_dir[NextTemplate], theme_task.loads)]
    /\ UNCHANGED <<theme_dir, page>>
    /\ StoreUnchanged
    /\ UNCHANGED <<fs, tasks, receivers, reply, delivered>>

\* load_handlebars_theme reads and registers its next template in the new
\* registry.
RegisterTemplate ==
    /\ theme_task.pc = "loading"
    /\ DOMAIN theme_task.loading # Templates
    /\ theme_dir[NextTemplate] # TemplateError
    /\ theme_task' = [theme_task EXCEPT !.loading =
          MapInsert(@, NextTemplate,
                    Registered(theme_dir[NextTemplate], theme_task.loads))]
    /\ UNCHANGED <<theme_dir, handlebars, page>>
    /\ StoreUnchanged
    /\ UNCHANGED <<fs, tasks, receivers, reply, delivered>>

\* Reading or registering the next template fails: load_handlebars_theme
\* returns the error, reload_theme returns it before its assignment, the
\* callback logs it, drops the guard and sends Reload.
ReloadFails ==
    /\ theme_task.pc = "loading"
    /\ DOMAIN theme_task.loading # Templates
    /\ theme_dir[NextTemplate] = TemplateError
    /\ theme_task' = Idle(theme_task.events, theme_task.loads)
    /\ receivers' = send(receivers)
    /\ UNCHANGED <<theme_dir, handlebars, page>>
    /\ StoreUnchanged
    /\ UNCHANGED <<fs, tasks, reply, delivered>>

\* load_handlebars_theme returns the new registry, reload_theme assigns it
\* to self.handlebars, the callback drops the guard and sends Reload.
Install ==
    /\ theme_task.pc = "loading"
    /\ DOMAIN theme_task.loading = Templates
    /\ handlebars' = theme_task.loading
    /\ theme_task' = Idle(theme_task.events, theme_task.loads)
    /\ receivers' = send(receivers)
    /\ UNCHANGED <<theme_dir, page>>
    /\ StoreUnchanged
    /\ UNCHANGED <<fs, tasks, reply, delivered>>

\* A handler gets the read guard, which no reload holds, and renders
\* template t (format_blog_entry, format_not_found or format_home): the
\* result of Handlebars::render is unwrapped, so its error is a panic that
\* unwinds the handler and drops the guard.
Render(t) ==
    /\ theme_task.pc = "idle"
    /\ page' = IF handlebars[t].version = Unrenderable
               THEN Panicked(t)
               ELSE Html(t, handlebars[t].version)
    /\ UNCHANGED <<theme_dir, handlebars, theme_task>>
    /\ StoreUnchanged
    /\ UNCHANGED <<fs, tasks, receivers, reply, delivered>>

NextTheme ==
    \/ \E t \in Templates :
          \E v \in TemplateVersions \cup {TemplateError, Unrenderable} :
             ThemeModify(t, v)
    \/ ReloadStart
    \/ RegisterTemplate
    \/ ReloadFails
    \/ Install
    \/ \E t \in Templates : Render(t)

SpecTheme == Init /\ [][NextTheme]_vars

\* What a file must be for parse_file_to_html to fail on it.
Unparsable(path) ==
    path \notin DOMAIN fs \/ fs[path].content = BadFrontMatter

\* C11: only eligible names (ending in .md, not starting with _) are in the
\* by-name map or the recent list, and GET /blog/<ineligible name> answers
\* with the not-found page.
C11_OnlyEligibleNames ==
    /\ \A n \in DOMAIN entries : is_valid_filename_entry(n)
    /\ \A i \in 1..Len(most_recent_entries) :
          is_valid_filename_entry(most_recent_entries[i].filename)
    /\ (reply.status \in {"hit", "loaded", "not_found"}
        /\ ~is_valid_filename_entry(reply.name))
       => reply.status = "not_found"

\* C12: GET /blog/<name> and GET /blog leave the by-name map and the recent
\* list unchanged.
C12_HandlersReadOnly ==
    [][((\E name \in Names : Blog(name)) \/ Home)
       => UNCHANGED <<entries, most_recent_entries>>]_vars

\* C16: the callback of a Removed event leaves the store alone and
\* publishes nothing; its task unbinds a name ending in .md from the by-name
\* map, keeping every other binding, and leaves the store alone for any
\* other name; it publishes nothing either.
C16_RemovedEventDispatch ==
    [][/\ \A name \in Names :
             WatcherRemove(name)
             => UNCHANGED <<entries, most_recent_entries, receivers>>
       /\ \A t \in BagToSet(tasks) :
             RunRemoveEntry(t)
             => /\ receivers' = receivers
                /\ IF ends_with(t.path, MD)
                   THEN /\ t.path \notin DOMAIN entries'
                        /\ \A n \in DOMAIN entries \ {t.path} :
                              n \in DOMAIN entries' /\ entries'[n] = entries[n]
                   ELSE UNCHANGED <<entries, most_recent_entries>>]_vars

\* The file of a stored .md name was deleted with a client connected, its
\* remove task has run, and the client has nothing to receive.
C16_Witness ==
    \E name \in Names :
        /\ ends_with(name, MD)
        /\ name \notin DOMAIN fs
        /\ name \notin DOMAIN entries
        /\ \E i \in 1..Len(most_recent_entries) :
              most_recent_entries[i].filename = name
        /\ tasks = EmptyBag
        /\ receivers[1].active
        /\ receivers[1].pending = 0
        /\ ~receivers[1].lagged

\* C17: a create or reload task whose file cannot be read or has no valid
\* front matter leaves both indices as they are.
C17_FailedIngestKeepsStore ==
    [][\A t \in BagToSet(tasks) :
          (/\ RunCreateEntry(t) \/ RunReloadEntry(t)
           /\ Unparsable(t.path))
          => UNCHANGED <<entries, most_recent_entries>>]_vars

\* Every task has run, the file of a stored name has lost its front matter
\* and the entry parsed earlier is still bound to the name.
C17_Witness ==
    \E name \in DOMAIN entries :
        /\ name \in DOMAIN fs
        /\ fs[name].content = BadFrontMatter
        /\ entries[name].html # BadFrontMatter
        /\ tasks = EmptyBag
        /\ delivered >= 2

\* C20: a new receiver starts with nothing to receive, so it only gets what
\* is sent after it subscribed; a Reload sent while nobody is subscribed
\* changes nothing in the channel and the callback still spawns its task.
C20_NoHistoryNoSubscribers ==
    [][/\ Events
          => \A i \in DOMAIN receivers :
                (~receivers[i].active /\ receivers'[i].active)
                => receivers'[i].pending = 0 /\ ~receivers'[i].lagged
       /\ \A name \in Names :
             (/\ WatcherCreate(name) \/ WatcherModify(name)
              /\ \A i \in DOMAIN receivers : ~receivers[i].active)
             => /\ receivers' = receivers
                /\ BagCardinality(tasks') = BagCardinality(tasks) + 1]_vars

\* A client subscribed after a Reload had been sent to nobody, and has
\* nothing to receive.
C20_Witness ==
    /\ receivers[1].active
    /\ receivers[1].pending = 0
    /\ ~receivers[1].lagged
    /\ delivered = 1
    /\ \E t \in BagToSet(tasks) : t.kind \in {"create", "reload"}

\* C19: a send to a receiver whose backlog is full keeps the backlog at
\* the bound and marks that receiver as lagged, and touches no receiver
\* with room except to add the value; the next frame of a lagged receiver
\* is a "reload" frame, which a polled stream does yield; send is enabled
\* whatever the receivers' backlogs are.
C19_LagBecomesReload ==
    /\ [][Publish =>
            \A i \in DOMAIN receivers :
               /\ (receivers[i].active /\ receivers[i].pending = ChannelCapacity)
                  => /\ receivers'[i].lagged
                     /\ receivers'[i].pending = ChannelCapacity
               /\ (receivers[i].active /\ receivers[i].pending < ChannelCapacity)
                  => /\ receivers'[i].pending = receivers[i].pending + 1
                     /\ receivers'[i].lagged = receivers[i].lagged]_vars
    /\ [](\A i \in DOMAIN receivers :
             receivers[i].lagged
             => /\ receivers[i].active
                /\ receivers[i].pending = ChannelCapacity
                /\ sse_update(recv(receivers[i]).item) = "reload")
    /\ [](ENABLED Publish)
    /\ \A i \in 1..BusSubscribers :
          receivers[i].lagged ~> ~receivers[i].lagged

\* One client has lost events while another, connected too, has room.
C19_Witness ==
    /\ receivers[1].lagged
    /\ receivers[2].active
    /\ receivers[2].pending < ChannelCapacity
    /\ ~receivers[2].lagged

\* C13: in no state, each of which a reader can observe, has an upsert
\* changed the by-name map and not yet the recent list, and in no state
\* does the recent list hold an entry whose name the by-name map lacks.
C13_NoTornStore ==
    /\ \A t \in BagToSet(tasks) : t.pc # "store_recent"
    /\ \A i \in 1..Len(most_recent_entries) :
          most_recent_entries[i].filename \in DOMAIN entries

\* C14: once every task has finished, a name that is bound is bound to the
\* entry of the parse of its file that returned last, and if the recent
\* list holds an entry of the name it holds that one.
C14_LastParseWins ==
    tasks = EmptyBag
    => \A name \in DOMAIN last_parsed :
          /\ name \in DOMAIN entries
             => entries[name] = last_parsed[name]
          /\ (\E i \in 1..Len(most_recent_entries) :
                 most_recent_entries[i].filename = name)
             => \E i \in 1..Len(most_recent_entries) :
                   most_recent_entries[i] = last_parsed[name]

\* C15: the Create arm of the callback sends Reload to every connected
\* client, and while the create task of an eligible file with valid front
\* matter is waiting to run, eventually the cache answers the name with the
\* entry parsed from that file, unless the file was changed or deleted first.
C15_CreatedEventuallyServed ==
    /\ [][\A name \in Names :
             WatcherCreate(name)
             => \A i \in DOMAIN receivers :
                   receivers[i].active
                   => \/ receivers'[i].pending = receivers[i].pending + 1
                      \/ receivers'[i].lagged]_vars
    /\ \A name \in {n \in Names : is_valid_filename_entry(n)} :
       \A e \in EntriesNamed(name) :
          (/\ Task("create", name) \in BagToSet(tasks)
           /\ parse_file_to_html(fs, name) = ParseOk(e))
          ~> (\/ try_find_cached_entry(Store, name) = <<e>>
              \/ parse_file_to_html(fs, name) # ParseOk(e))

\* The create task of an eligible file has run, the cache answers the name
\* with the entry of the file, and the Reload of its Created event is
\* waiting for a connected client.
C15_Witness ==
    \E name \in Names :
        /\ is_valid_filename_entry(name)
        /\ delivered = 1
        /\ tasks = EmptyBag
        /\ parse_file_to_html(fs, name).ok
        /\ try_find_cached_entry(Store, name) = parse_file_to_html(fs, name).entry
        /\ reply = NoReply
        /\ receivers[1].active
        /\ receivers[1].pending = 1

\* C18: a reload that fails leaves the registry that was served before
\* it; a reload that succeeds replaces the registry by the one its load
\* built, every template of it; and whenever a render can run, all the
\* templates it can use were registered by one and the same load.
C18_ThemeAllOrNothing ==
    /\ [][ReloadFails => handlebars' = theme_task.old]_vars
    /\ [][Install =>
            \A t \in Templates :
               handlebars'[t] = Registered(theme_task.loading[t].version,
                                           theme_task.loads)]_vars
    /\ []((\E t \in Templates : ENABLED Render(t))
          => \A t1, t2 \in Templates :
                handlebars[t1].load = handlebars[t2].load)

\* Two reloads failed on the last template, after the first one had
\* installed a new theme and with another template edited since; a page
\* was rendered from the theme kept.
C18_Witness ==
    /\ theme_task = Idle(0, 3)
    /\ theme_dir["home"] = TemplateError
    /\ theme_dir["blog_entry"] # handlebars["blog_entry"].version
    /\ \A t \in Templates : handlebars[t].load = 1
    /\ page = Html("blog_entry", handlebars["blog_entry"].version)

\* C21: no render ends in a panic: every call of format_home,
\* format_blog_entry or format_not_found returns HTML to its handler, the
\* rendered page or a fallback.
C21_RenderTotal == page.status \in {"none", "html", "fallback"}

\* C22: most_recent_entries is in non-decreasing order of creation_date,
\* nothing is cut from it unless it is full, and no entry ever cut from it
\* has a creation_date smaller than that of an entry it holds: it holds
\* the entries of smallest creation_date of all that were stored.
C22_RecentSortedOldestKept ==
    /\ \A i \in 1..(Len(most_recent_entries) - 1) :
          most_recent_entries[i].creation_date
             <= most_recent_entries[i + 1].creation_date
    /\ \A d \in truncated :
          \A i \in 1..Len(most_recent_entries) :
             most_recent_entries[i].creation_date <= d
    /\ truncated # {} => Len(most_recent_entries) = max_most_recent_entries

\* The list is full with entries of different dates and an entry of the
\* larger date has been cut from it.
C22_Witness ==
    /\ Len(most_recent_entries) = max_most_recent_entries
    /\ most_recent_entries[1].creation_date
          < most_recent_entries[Len(most_recent_entries)].creation_date
    /\ most_recent_entries[Len(most_recent_entries)].creation_date \in truncated

=============================================================================
